---- MODULE Spec2Model ----
(***************************************************************************)
(* Model of the autocue XmlProcessor (src/src/components/TrackSelector.js, *)
(* class XmlProcessor): parseXml, processXml, processSingleTrack,          *)
(* findReferencePoint, the two cue generators, slot allocation, the        *)
(* playlist append and buildXml with its position-mark normalisation.      *)
(*                                                                         *)
(* Representation                                                          *)
(*  - time is counted in ticks of 0.1 ms (TicksPerSec ticks per second);   *)
(*  - the text of a Start attribute is [t |-> ticks, dec |-> number of     *)
(*    decimals written]; parseFloat reads t, toFixed(3) rounds t to whole  *)
(*    milliseconds and writes 3 decimals;                                  *)
(*  - the text of TotalTime / Bpm / AverageBpm is [k, v] with              *)
(*    k = "absent" | "num" | "nan" | "inf"; a JS number is [k, v] with     *)
(*    k = "num" | "nan" | "inf";                                           *)
(*  - a JS property that may be undefined is [def, arr];                   *)
(*  - the text of a Num attribute (a decimal integer) is that integer.     *)
(***************************************************************************)
EXTENDS Integers, Sequences, FiniteSets, TLC

VARIABLES xmlContent, config, selectedTrackIds, pc, parsedData, modifiedXml,
          newCuesLog, errorMessage, previousXml,
          activeStep, processing, processedTracks, success, runs,
          autoExportedRef, saveDialogs

\* the state of App and of ProcessingStatus besides xmlContent, config,
\* selectedTracks (selectedTrackIds), modifiedXmlContent (modifiedXml) and
\* error (errorMessage)
appVars == <<activeStep, processing, processedTracks, success, runs,
             autoExportedRef, saveDialogs>>

vars == <<xmlContent, config, selectedTrackIds, pc, parsedData, modifiedXml,
          newCuesLog, errorMessage, previousXml, activeStep, processing,
          processedTracks, success, runs, autoExportedRef, saveDialogs>>

----------------------------------------------------------------------------
(* Program constants *)

TicksPerSec == 10000

\* const minDistance = 0.5 (seconds), in ticks
minDistance == 5000

\* if (time < 0.025) continue, in ticks
startFloor == 250

\* for (let i = 0; i < 8; i++): hot cue slots 0..7
hotCueSlots == 8

\* seconds in four beats at 1 BPM: (60 / bpm) * 4
barSecondsAtOneBpm == 240

----------------------------------------------------------------------------
(* JS values *)

Undef == [def |-> FALSE, arr |-> <<>>]
Arr(s) == [def |-> TRUE, arr |-> s]

Num(n) == [k |-> "num", v |-> n]
NaN == [k |-> "nan", v |-> 0]
Infinity == [k |-> "inf", v |-> 0]
AbsentAttr == [k |-> "absent", v |-> 0]

\* parseFloat(attr || 0)
parseFloatOrZero(a) == IF a.k = "absent" THEN Num(0) ELSE [k |-> a.k, v |-> a.v]

\* x <= 0 on JS numbers (false for NaN and for +Infinity)
LeqZero(x) == x.k = "num" /\ x.v <= 0

isNaN(x) == x.k = "nan"

Abs(n) == IF n < 0 THEN 0 - n ELSE n

Max(a, b) == IF a >= b THEN a ELSE b

\* parseFloat of a Start attribute text
parseFloatStart(s) == s.t

\* Number.prototype.toFixed(3): nearest millisecond, three decimals written
toFixed3(t) == [t |-> ((t + 5) \div 10) * 10, dec |-> 3]

\* String.prototype.charCodeAt(0) for the hot cue letters
charCodeAt == [A |-> 65, B |-> 66, C |-> 67, D |-> 68,
               E |-> 69, F |-> 70, G |-> 71, H |-> 72]

\* the colour table of the generators, indexed by slot + 1
colors == << <<255, 55, 111>>, <<69, 172, 219>>, <<125, 193, 61>>,
             <<237, 135, 0>>, <<189, 94, 235>>, <<32, 218, 181>>,
             <<255, 204, 0>>, <<226, 82, 153>> >>

NoColor == <<>>

\* a Name attribute that is not present on the element
NoName == "<absent>"

----------------------------------------------------------------------------
(* Position marks and tracks of the parsed tree *)

\* positions = track.POSITION_MARK ? (Array.isArray(..) ? .. : [..]) : []
positionsOf(track) ==
  IF track.POSITION_MARK.def THEN track.POSITION_MARK.arr ELSE <<>>

\* pos["@_Type"] === "0" && parseInt(pos["@_Num"]) >= 0
isHotCue(pos) == pos.Type = "0" /\ pos.Num >= 0

\* Array.prototype.sort((a, b) => parseFloat(a.Start) - parseFloat(b.Start)):
\* a stable sort; InsertByStart puts m behind every element that is not later
RECURSIVE InsertByStart(_, _)
InsertByStart(s, m) ==
  IF s = <<>> THEN <<m>>
  ELSE IF parseFloatStart(s[Len(s)].Start) <= parseFloatStart(m.Start)
       THEN Append(s, m)
       ELSE Append(InsertByStart(SubSeq(s, 1, Len(s) - 1), m), s[Len(s)])

RECURSIVE SortByStart(_)
SortByStart(s) ==
  IF s = <<>> THEN <<>>
  ELSE InsertByStart(SortByStart(SubSeq(s, 1, Len(s) - 1)), s[Len(s)])

\* a comparator with its operands exchanged: latest mark first
sortByStartDescending(marks) ==
  [p \in 1..Len(marks) |-> SortByStart(marks)[Len(marks) + 1 - p]]

\* a sort that is not stable: marks of equal start change places
sortByStartTiesReversed(marks) ==
  SortByStart([p \in 1..Len(marks) |-> marks[Len(marks) + 1 - p]])

\* marks.sort((a, b) => parseFloat(a["@_Start"]) - parseFloat(b["@_Start"]))
sortByStart(marks) == SortByStart(marks)

NullMark == [Name |-> NoName, Type |-> "", Start |-> [t |-> 0, dec |-> 0],
             Num |-> -1, Color |-> NoColor]

NoRef == [found |-> FALSE, mark |-> NullMark]
Ref(m) == [found |-> TRUE, mark |-> m]

\* letters counted from 1: A=1, B=2, ..
letterNumberFromOne(specificCue) ==
  IF specificCue # "" THEN charCodeAt[specificCue] - 64 ELSE -1

\* specificCue ? specificCue.charCodeAt(0) - 65 : -1
letterNumber(specificCue) ==
  IF specificCue # "" THEN charCodeAt[specificCue] - 65 ELSE -1

findReferencePoint(track, refType, specificCue) ==
  LET positions == positionsOf(track)
      specificCueNum == letterNumber(specificCue)
      hotCues == sortByStart(SelectSeq(positions, isHotCue))
      matching == SelectSeq(hotCues, LAMBDA cue : cue.Num = specificCueNum)
  IN IF Len(positions) = 0 THEN NoRef
     ELSE IF Len(hotCues) = 0 THEN NoRef
     ELSE CASE refType = "firstHotCue" -> Ref(hotCues[1])
            [] refType = "lastHotCue" -> Ref(hotCues[Len(hotCues)])
            [] refType = "specificHotCue" ->
                 IF matching # <<>> THEN Ref(matching[1]) ELSE NoRef
            [] refType = "intro" -> Ref(hotCues[1])
            [] refType = "outro" -> Ref(hotCues[Len(hotCues)])
            [] OTHER -> NoRef

isTooCloseToExistingCues(track, time) ==
  \E p \in 1..Len(positionsOf(track)) :
     Abs(parseFloatStart(positionsOf(track)[p].Start) - time) < minDistance

\* the scan of the slots stopping one slot early
getNextAvailableHotCueNumberOfSeven(track) ==
  LET positions == positionsOf(track)
      usedNumbers == {positions[p].Num :
                        p \in {q \in 1..Len(positions) : isHotCue(positions[q])}}
      free == {i \in 0..(hotCueSlots - 2) : i \notin usedNumbers}
  IN IF free # {} THEN CHOOSE i \in free : \A j \in free : i <= j
     ELSE -1

getNextAvailableHotCueNumber(track) ==
  LET positions == positionsOf(track)
      usedNumbers == {positions[p].Num :
                        p \in {q \in 1..Len(positions) : isHotCue(positions[q])}}
      free == {i \in 0..(hotCueSlots - 1) : i \notin usedNumbers}
  IN IF free # {} THEN CHOOSE i \in free : \A j \in free : i <= j
     ELSE -1

\* the position mark pushed by either generator, with its colour attributes
newCueMark(name, time, cueNum) ==
  [Name |-> name, Type |-> "0", Start |-> toFixed3(time), Num |-> cueNum,
   Color |-> IF cueNum # -1 /\ cueNum >= 0 /\ cueNum < Len(colors)
             THEN colors[cueNum + 1] ELSE NoColor]

\* a floor that only rejects negative times
tooCloseToStartNegativeOnly(time) == time < 0

\* if (time < 0.025) continue
tooCloseToStart(time) == time < startFloor

\* the numbering of the after direction used before the reference
beforeCueNameCountingUp(count, i) == "Auto " \o ToString(i)

\* `Auto ${count - i + 1}`
beforeCueName(count, i) == "Auto " \o ToString(count - i + 1)

\* One entry of a generator's result: the pushed mark together with the
\* direction, the loop index and the candidate time it was computed from.
RECURSIVE generateCuesBeforeLoop(_, _, _, _, _, _, _, _)
generateCuesBeforeLoop(i, newCues, track, refTime, count, interval, barDuration, cueType) ==
  IF i > count THEN newCues
  ELSE LET time == Max(0, refTime - i * interval * barDuration)
           cueNum == IF cueType = "memory" THEN -1
                     ELSE getNextAvailableHotCueNumber(track)
           cue == [dir |-> "before", i |-> i, time |-> time,
                   mark |-> newCueMark(beforeCueName(count, i), time,
                                       cueNum)]
       IN IF tooCloseToStart(time)
          THEN generateCuesBeforeLoop(i + 1, newCues, track, refTime, count,
                                      interval, barDuration, cueType)
          ELSE IF isTooCloseToExistingCues(track, time)
          THEN generateCuesBeforeLoop(i + 1, newCues, track, refTime, count,
                                      interval, barDuration, cueType)
          ELSE generateCuesBeforeLoop(i + 1, Append(newCues, cue), track,
                                      refTime, count, interval, barDuration,
                                      cueType)

generateCuesBeforeRef(track, refPoint, count, interval, barDuration, cueType) ==
  generateCuesBeforeLoop(1, <<>>, track, parseFloatStart(refPoint.Start),
                         count, interval, barDuration, cueType)

\* time >= totalTime on a finite time and a JS number
timeGeq(time, totalTime) ==
  totalTime.k = "num" /\ time >= totalTime.v * TicksPerSec

RECURSIVE generateCuesAfterLoop(_, _, _, _, _, _, _, _, _)
generateCuesAfterLoop(i, newCues, track, refTime, count, interval, barDuration, cueType, totalTime) ==
  IF i > count THEN newCues
  ELSE LET time == refTime + i * interval * barDuration
           cueNum == IF cueType = "memory" THEN -1
                     ELSE getNextAvailableHotCueNumber(track)
           cue == [dir |-> "after", i |-> i, time |-> time,
                   mark |-> newCueMark("Auto " \o ToString(i), time, cueNum)]
       IN IF timeGeq(time, totalTime)
          THEN generateCuesAfterLoop(i + 1, newCues, track, refTime, count,
                                     interval, barDuration, cueType, totalTime)
          ELSE IF isTooCloseToExistingCues(track, time)
          THEN generateCuesAfterLoop(i + 1, newCues, track, refTime, count,
                                     interval, barDuration, cueType, totalTime)
          ELSE generateCuesAfterLoop(i + 1, Append(newCues, cue), track,
                                     refTime, count, interval, barDuration,
                                     cueType, totalTime)

generateCuesAfterRef(track, refPoint, count, interval, barDuration, cueType, totalTime) ==
  generateCuesAfterLoop(1, <<>>, track, parseFloatStart(refPoint.Start),
                        count, interval, barDuration, cueType, totalTime)

\* bpm from the first TEMPO, else from AverageBpm
resolveBpm(track) ==
  LET tempoBpm == IF track.TEMPO.def /\ Len(track.TEMPO.arr) > 0
                  THEN parseFloatOrZero(track.TEMPO.arr[1].Bpm)
                  ELSE Num(0)
  IN IF LeqZero(tempoBpm) THEN parseFloatOrZero(track.AverageBpm)
     ELSE tempoBpm

\* bpm <= 0 || isNaN(bpm) || totalTime <= 0 || isNaN(totalTime)
invalidBpmOrDuration(bpm, totalTime) ==
  LeqZero(bpm) \/ isNaN(bpm) \/ LeqZero(totalTime) \/ isNaN(totalTime)

\* the duration of one beat taken for the duration of one bar
barDurationOfOneBeat(bpm) ==
  IF bpm.k = "inf" THEN 0
  ELSE ((barSecondsAtOneBpm \div 4) * TicksPerSec) \div bpm.v

\* barDuration = (60 / bpm) * 4 in ticks; 60 / Infinity is 0
barDurationOf(bpm) ==
  IF bpm.k = "inf" THEN 0
  ELSE (barSecondsAtOneBpm * TicksPerSec) \div bpm.v

marksOfCues(cues) == [c \in 1..Len(cues) |-> cues[c].mark]

\* a skip test that needs both references to be missing
bothReferencesMissing(beforeRefPoint, afterRefPoint) ==
  ~beforeRefPoint.found /\ ~afterRefPoint.found

\* !beforeRefPoint || !afterRefPoint
referenceMissing(beforeRefPoint, afterRefPoint) ==
  ~beforeRefPoint.found \/ ~afterRefPoint.found

\* the new cues assigned as the whole POSITION_MARK list
mergeKeepingNewOnly(positionMarks, newMarks) == newMarks

\* [...track.POSITION_MARK, ...newCues]
mergeMarks(positionMarks, newMarks) == positionMarks \o newMarks

\* Result: the track after the call, what happened, the generated cues and
\* the two reference points as far as the call came to resolve them.
processSingleTrack(track, cfg) ==
  LET track1 == [track EXCEPT !.POSITION_MARK =
                                 IF @.def THEN @ ELSE Arr(<<>>)]
      totalTime == parseFloatOrZero(track1.TotalTime)
      bpm == resolveBpm(track1)
      beforeRefPoint == findReferencePoint(track1, cfg.beforeReference,
                                           cfg.specificBeforeCue)
      afterRefPoint == findReferencePoint(track1, cfg.afterReference,
                                          cfg.specificAfterCue)
      barDuration == barDurationOf(bpm)
      cueBefore == IF cfg.beforeCount > 0
                   THEN generateCuesBeforeRef(track1, beforeRefPoint.mark,
                           cfg.beforeCount, cfg.beforeInterval, barDuration,
                           cfg.cueType)
                   ELSE <<>>
      cueAfter == IF cfg.afterCount > 0
                  THEN generateCuesAfterRef(track1, afterRefPoint.mark,
                          cfg.afterCount, cfg.afterInterval, barDuration,
                          cfg.cueType, totalTime)
                  ELSE <<>>
      newCues == cueBefore \o cueAfter
  IN IF invalidBpmOrDuration(bpm, totalTime)
     THEN [track |-> track1, outcome |-> "skipInvalid", newCues |-> <<>>,
           beforeRefPoint |-> NoRef, afterRefPoint |-> NoRef]
     ELSE IF referenceMissing(beforeRefPoint, afterRefPoint)
     THEN [track |-> track1, outcome |-> "skipNoRef", newCues |-> <<>>,
           beforeRefPoint |-> beforeRefPoint, afterRefPoint |-> afterRefPoint]
     ELSE [track |-> [track1 EXCEPT !.POSITION_MARK =
                        Arr(sortByStart(mergeMarks(track1.POSITION_MARK.arr,
                                                   marksOfCues(newCues))))],
           outcome |-> "processed", newCues |-> newCues,
           beforeRefPoint |-> beforeRefPoint, afterRefPoint |-> afterRefPoint]

----------------------------------------------------------------------------
(* The document: text and parsed tree *)

(* A document text is
     [root, collection : BOOLEAN,    DJ_PLAYLISTS / COLLECTION element present
      tracks : Seq(track text),      the TRACK children of COLLECTION
      playlists : BOOLEAN,           PLAYLISTS element present
      nodes : Seq(node),             the NODE children of PLAYLISTS
      syntax : how it is written]    declaration and element forms, see below
   a track text is [TrackID, TotalTime, AverageBpm, tempos, marks], and a node
   is [Name, Type, KeyType, TRACK] with TRACK the sequence of its Key values.
   The parsed tree keeps the same attributes; a child tag that the parser
   option isArray names is an array when at least one element is present and
   undefined otherwise. *)

arrayOf(s) == IF s = <<>> THEN Undef ELSE Arr(s)

parseTrack(t) ==
  [TrackID |-> t.TrackID, TotalTime |-> t.TotalTime,
   AverageBpm |-> t.AverageBpm,
   TEMPO |-> arrayOf(t.tempos), POSITION_MARK |-> arrayOf(t.marks)]

\* this.parser.parse(xmlContent): COLLECTION carries its Entries attribute and
\* is an object whenever present; a PLAYLISTS element without NODE children
\* parses to the empty string, which is falsy.
parseXml(xml) ==
  [declaration |-> xml.syntax.declaration > 0,
   DJ_PLAYLISTS |-> xml.root,
   COLLECTION |-> xml.root /\ xml.collection,
   TRACK |-> IF xml.root /\ xml.collection
             THEN arrayOf([i \in 1..Len(xml.tracks) |-> parseTrack(xml.tracks[i])])
             ELSE Undef,
   PLAYLISTS |-> xml.root /\ xml.playlists /\ xml.nodes # <<>>,
   NODE |-> IF xml.root /\ xml.playlists THEN arrayOf(xml.nodes) ELSE Undef]

completePositionMarkAttributes(positionMark) ==
  [positionMark EXCEPT
     !.Name = IF @ = NoName THEN "" ELSE @,
     !.Type = "0",
     !.Start = toFixed3(parseFloatStart(@))]

\* the body of tracks.forEach in processAllPositionMarks
completeAndSortTrack(track) ==
  IF ~track.POSITION_MARK.def THEN track
  ELSE [track EXCEPT !.POSITION_MARK =
          Arr(sortByStart([p \in 1..Len(@.arr) |->
                             completePositionMarkAttributes(@.arr[p])]))]

processAllPositionMarks(data) ==
  IF ~(data.DJ_PLAYLISTS /\ data.COLLECTION /\ data.TRACK.def) THEN data
  ELSE [data EXCEPT !.TRACK =
          Arr([i \in 1..Len(@.arr) |-> completeAndSortTrack(@.arr[i])])]

(* How a text is written, as far as the parser forgets it:
     declaration : how many XML declarations the text starts with,
     DJ_PLAYLISTS, COLLECTION, PLAYLISTS : the form of the element,
     TRACK : the form of each TRACK of the collection,
     NODE : per playlist node, the form of the node and the form of its TRACK
            entries.
   A form is "paired" (<X ..></X>), "selfClosing" (<X ../>) or "none" (no
   such element). POSITION_MARK and TEMPO are always written self-closing. *)

\* the tags named by this.nonSelfClosingTags
nonSelfClosingTags == {"TRACK", "DJ_PLAYLISTS", "COLLECTION", "PLAYLISTS", "NODE"}

\* XMLBuilder with suppressEmptyNode: an element without children is written
\* self-closing, whatever its tag
builderForm(tag, hasChildren) == IF hasChildren THEN "paired" ELSE "selfClosing"

\* formatXmlForRekordbox, the replacement of <TRACK ../> by <TRACK ..></TRACK>
formatTag(tag, form) ==
  IF tag = "TRACK" /\ form = "selfClosing" THEN "paired" ELSE form

\* a declaration put in front of whatever the text starts with
prependDeclarationAlways(declarations) == declarations + 1

\* if (!formattedXml.startsWith("<?xml")) prepend the declaration
fixDeclaration(declarations) ==
  IF declarations = 0 THEN 1 ELSE declarations

writtenForm(tag, hasChildren) == formatTag(tag, builderForm(tag, hasChildren))

hasChildElements(track) ==
  (track.TEMPO.def /\ track.TEMPO.arr # <<>>)
    \/ (track.POSITION_MARK.def /\ track.POSITION_MARK.arr # <<>>)

buildSyntax(data) ==
  [declaration |-> fixDeclaration(IF data.declaration THEN 1 ELSE 0),
   DJ_PLAYLISTS |-> IF ~data.DJ_PLAYLISTS THEN "none"
                    ELSE writtenForm("DJ_PLAYLISTS",
                                     data.COLLECTION \/ data.PLAYLISTS),
   COLLECTION |-> IF ~data.COLLECTION THEN "none"
                  ELSE writtenForm("COLLECTION", data.TRACK.arr # <<>>),
   TRACK |-> [i \in 1..Len(data.TRACK.arr) |->
                writtenForm("TRACK", hasChildElements(data.TRACK.arr[i]))],
   PLAYLISTS |-> IF ~data.PLAYLISTS THEN "none"
                 ELSE writtenForm("PLAYLISTS", data.NODE.arr # <<>>),
   NODE |-> [n \in 1..Len(data.NODE.arr) |->
               [NODE |-> writtenForm("NODE", data.NODE.arr[n].TRACK # <<>>),
                TRACK |-> IF data.NODE.arr[n].TRACK = <<>> THEN "none"
                          ELSE writtenForm("TRACK", FALSE)]]]

\* this.builder.build(jsObject) followed by formatXmlForRekordbox, as the
\* document text it denotes
buildText(data) ==
  [root |-> data.DJ_PLAYLISTS,
   collection |-> data.COLLECTION,
   tracks |-> [i \in 1..Len(data.TRACK.arr) |->
                 [TrackID |-> data.TRACK.arr[i].TrackID,
                  TotalTime |-> data.TRACK.arr[i].TotalTime,
                  AverageBpm |-> data.TRACK.arr[i].AverageBpm,
                  tempos |-> data.TRACK.arr[i].TEMPO.arr,
                  marks |-> data.TRACK.arr[i].POSITION_MARK.arr]],
   playlists |-> data.PLAYLISTS,
   nodes |-> data.NODE.arr,
   syntax |-> buildSyntax(data)]

\* Result of buildXml: the tree as the call leaves it, and the text returned.
buildXml(jsObject) ==
  [data |-> processAllPositionMarks(jsObject),
   text |-> buildText(processAllPositionMarks(jsObject))]

newPlaylist(selected) ==
  [Name |-> "Autocue Processed Tracks", Type |-> "1", KeyType |-> "0",
   TRACK |-> selected]

\* the new node assigned as the whole NODE list instead of pushed onto it
createPlaylistReplacingNodes(data, selected) ==
  [data EXCEPT !.PLAYLISTS = TRUE,
               !.NODE = Arr(<<newPlaylist(selected)>>)]

createPlaylistWithProcessedTracks(data, selected) ==
  LET nodes == IF ~data.PLAYLISTS THEN <<>> ELSE data.NODE.arr
  IN [data EXCEPT !.PLAYLISTS = TRUE,
                  !.NODE = Arr(Append(nodes, newPlaylist(selected)))]

includes(seq, x) == \E i \in 1..Len(seq) : seq[i] = x

NoSyntax == [declaration |-> 0, DJ_PLAYLISTS |-> "none", COLLECTION |-> "none",
             TRACK |-> <<>>, PLAYLISTS |-> "none", NODE |-> <<>>]

NoText == [root |-> FALSE, collection |-> FALSE, tracks |-> <<>>,
           playlists |-> FALSE, nodes |-> <<>>, syntax |-> NoSyntax]

\* a structure test that looks at DJ_PLAYLISTS only
missingRootOnly(parsed) == ~parsed.DJ_PLAYLISTS

\* !parsedData.DJ_PLAYLISTS || !parsedData.DJ_PLAYLISTS.COLLECTION
missingCollectionRoot(parsed) == ~parsed.DJ_PLAYLISTS \/ ~parsed.COLLECTION

\* the callback of collection.TRACK.forEach
processTrackIfSelected(track, cfg, selected) ==
  IF includes(selected, track.TrackID)
  THEN processSingleTrack(track, cfg)
  ELSE [track |-> track, outcome |-> "unselected", newCues |-> <<>>,
        beforeRefPoint |-> NoRef, afterRefPoint |-> NoRef]

\* Result of processXml: ok = FALSE when the call throws; otherwise the text
\* returned, the tree at the end and, per track, what processSingleTrack did.
processXml(xml, cfg, selected) ==
  LET parsed == parseXml(xml)
      results == [i \in 1..Len(parsed.TRACK.arr) |->
                    processTrackIfSelected(parsed.TRACK.arr[i], cfg, selected)]
      processed == [parsed EXCEPT !.TRACK =
                      Arr([i \in 1..Len(results) |-> results[i].track])]
      withPlaylist == createPlaylistWithProcessedTracks(processed, selected)
      built == buildXml(withPlaylist)
  IN IF missingCollectionRoot(parsed)
     THEN [ok |-> FALSE, error |-> "Invalid Rekordbox XML format",
           text |-> NoText, data |-> parsed, log |-> <<>>]
     ELSE IF ~parsed.TRACK.def
     THEN [ok |-> FALSE, error |-> "TypeError",
           text |-> NoText, data |-> parsed, log |-> <<>>]
     ELSE [ok |-> TRUE, error |-> "",
           text |-> built.text, data |-> built.data,
           log |-> [i \in 1..Len(results) |->
                      [outcome |-> results[i].outcome,
                       newCues |-> results[i].newCues,
                       beforeRefPoint |-> results[i].beforeRefPoint,
                       afterRefPoint |-> results[i].afterRefPoint]]]

----------------------------------------------------------------------------
(* Inputs *)

\* longest position-mark list of a generated input track
MaxMarks == 2

\* largest beforeCount / afterCount of a generated configuration
MaxCount == 2

\* most tracks in a generated collection
MaxTracks == 2

\* longest generated selectedTrackIds
MaxSel == 3

SeqsUpTo(S, n) == UNION {[1..k -> S] : k \in 0..n}

StartText(t, dec) == [t |-> t, dec |-> dec]

Rgb(slot) == colors[slot + 1]

\* hot cue A at 30.000 s
MarkA30 == [Name |-> "Drop", Type |-> "0", Start |-> StartText(300000, 3),
            Num |-> 0, Color |-> Rgb(0)]
\* hot cue B at 62.000 s
MarkB62 == [Name |-> "", Type |-> "0", Start |-> StartText(620000, 3),
            Num |-> 1, Color |-> Rgb(1)]
\* memory cue at 14.2 s, written with one decimal
MarkM142 == [Name |-> "", Type |-> "0", Start |-> StartText(142000, 1),
             Num |-> -1, Color |-> NoColor]
\* memory cue at 14.500 s
MarkM145 == [Name |-> "Mem", Type |-> "0", Start |-> StartText(145000, 3),
             Num |-> -1, Color |-> NoColor]
\* loop (Type 4) in slot B at 46.0004 s, no Name attribute
MarkL46 == [Name |-> NoName, Type |-> "4", Start |-> StartText(460004, 4),
            Num |-> 1, Color |-> NoColor]
\* hot cue A at 30 s, written without decimals
MarkA30raw == [Name |-> "Drop", Type |-> "0", Start |-> StartText(300000, 0),
               Num |-> 0, Color |-> Rgb(0)]

MarkSet == {MarkA30, MarkB62, MarkM142, MarkM145, MarkL46}

AttrNum(n) == [k |-> "num", v |-> n]
AttrNaN == [k |-> "nan", v |-> 0]
AttrInf == [k |-> "inf", v |-> 0]

Tempo(bpm) == [Bpm |-> bpm]

TrackText(id, total, avg, tempos, marks) ==
  [TrackID |-> id, TotalTime |-> total, AverageBpm |-> avg,
   tempos |-> tempos, marks |-> marks]

RootNode == [Name |-> "ROOT", Type |-> "0", KeyType |-> "0", TRACK |-> <<>>]

\* a text written with these choices: declarations in front, emptyForm for
\* the TRACK and NODE elements without children, refForm for the TRACK entries
\* of playlist nodes; an element with children is paired
Syntax(d, declarations, emptyForm, refForm) ==
  [declaration |-> declarations,
   DJ_PLAYLISTS |-> IF ~d.root THEN "none"
                    ELSE IF d.collection \/ d.playlists THEN "paired"
                    ELSE emptyForm,
   COLLECTION |-> IF ~(d.root /\ d.collection) THEN "none"
                  ELSE IF d.tracks # <<>> THEN "paired" ELSE emptyForm,
   TRACK |-> [i \in 1..Len(d.tracks) |->
                IF d.tracks[i].tempos # <<>> \/ d.tracks[i].marks # <<>>
                THEN "paired" ELSE emptyForm],
   PLAYLISTS |-> IF ~(d.root /\ d.playlists) THEN "none"
                 ELSE IF d.nodes # <<>> THEN "paired" ELSE emptyForm,
   NODE |-> [n \in 1..Len(d.nodes) |->
               [NODE |-> IF d.nodes[n].TRACK # <<>> THEN "paired"
                         ELSE emptyForm,
                TRACK |-> IF d.nodes[n].TRACK = <<>> THEN "none"
                          ELSE refForm]]]

Document(d, syntax) ==
  [root |-> d.root, collection |-> d.collection, tracks |-> d.tracks,
   playlists |-> d.playlists, nodes |-> d.nodes, syntax |-> syntax]

\* the text as Rekordbox exports it: one declaration, paired elements,
\* self-closing TRACK entries in playlist nodes
Exported(d) == Document(d, Syntax(d, 1, "paired", "selfClosing"))

OneTrackDoc(t) ==
  Exported([root |-> TRUE, collection |-> TRUE, tracks |-> <<t>>,
            playlists |-> TRUE, nodes |-> <<RootNode>>])

Config(bRef, aRef, bCue, aCue, bCount, aCount, bInt, aInt, type) ==
  [beforeReference |-> bRef, afterReference |-> aRef,
   specificBeforeCue |-> bCue, specificAfterCue |-> aCue,
   beforeCount |-> bCount, afterCount |-> aCount,
   beforeInterval |-> bInt, afterInterval |-> aInt, cueType |-> type]

\* <<beforeReference, afterReference, specificBeforeCue, specificAfterCue>>
RefChoices ==
  { <<"firstHotCue", "lastHotCue", "A", "H">>,
    <<"intro", "outro", "A", "H">>,
    <<"lastHotCue", "firstHotCue", "A", "H">>,
    <<"specificHotCue", "specificHotCue", "A", "B">>,
    <<"specificHotCue", "specificHotCue", "B", "A">>,
    <<"specificHotCue", "lastHotCue", "H", "H">>,
    <<"firstHotCue", "specificHotCue", "A", "C">>,
    <<"firstHotCue", "marker", "A", "H">> }

\* <<beforeInterval, afterInterval>> in bars
IntervalChoices == { <<8, 16>>, <<8, 8>>, <<16, 8>> }

CueTypes == {"memory", "hot"}

Configs ==
  { Config(r[1], r[2], r[3], r[4], bc, ac, iv[1], iv[2], ty) :
      r \in RefChoices, bc \in 0..MaxCount, ac \in 0..MaxCount,
      iv \in IntervalChoices, ty \in CueTypes }

\* the configuration App starts with
DefaultConfig ==
  Config("firstHotCue", "lastHotCue", "A", "H", 2, 4, 8, 16, "memory")

\* <<TotalTime, AverageBpm, tempos>> of tracks with a usable tempo and duration
TimingChoices ==
  { <<AttrNum(300), AttrNum(120), <<Tempo(AttrNum(120))>> >>,
    <<AttrNum(60), AbsentAttr, <<Tempo(AttrNum(120)), Tempo(AttrNum(60))>> >> }

TotalTimeTexts == {AttrNum(300), AttrNum(0), AttrNaN, AttrInf, AbsentAttr}
BpmTexts == {AttrNum(120), AttrNum(0), AttrNaN, AttrInf, AbsentAttr}
TempoLists == {<<>>} \cup {<<Tempo(b)>> : b \in BpmTexts}

EmptyTree == [declaration |-> FALSE, DJ_PLAYLISTS |-> FALSE,
              COLLECTION |-> FALSE, TRACK |-> Undef,
              PLAYLISTS |-> FALSE, NODE |-> Undef]

\* App as useState initialises it, ProcessingStatus not mounted
AppIdle ==
  /\ activeStep = 0
  /\ processing = FALSE
  /\ processedTracks = 0
  /\ success = FALSE
  /\ runs = <<>>
  /\ autoExportedRef = FALSE
  /\ saveDialogs = 0

\* one selected track: every mark list against every configuration
InitMarks ==
  /\ \E marks \in SeqsUpTo(MarkSet, MaxMarks), tm \in TimingChoices :
       xmlContent = OneTrackDoc(TrackText(1, tm[1], tm[2], tm[3], marks))
  /\ config \in Configs
  /\ selectedTrackIds = <<1>>

\* one selected track: every tempo and duration text
InitAttrs ==
  /\ \E total \in TotalTimeTexts, avg \in BpmTexts, tempos \in TempoLists,
        marks \in {<<MarkA30>>, <<MarkB62, MarkA30raw>>} :
       xmlContent = OneTrackDoc(TrackText(1, total, avg, tempos, marks))
  /\ config \in {c \in Configs : /\ c.beforeReference = "firstHotCue"
                                 /\ c.afterReference = "lastHotCue"
                                 /\ c.beforeCount = MaxCount
                                 /\ c.afterInterval = 16}
  /\ selectedTrackIds = <<1>>

\* the tracks of generated collections, without their TrackID
TrackCatalog ==
  { TrackText(0, AttrNum(300), AttrNum(120), <<Tempo(AttrNum(120))>>,
              <<MarkA30>>),
    TrackText(0, AttrNum(300), AttrNum(120), <<Tempo(AttrNum(120))>>,
              <<MarkM145>>),
    TrackText(0, AttrNum(300), AbsentAttr, <<>>, <<MarkB62, MarkA30>>),
    TrackText(0, AttrNum(300), AttrNum(120), <<>>, <<MarkL46, MarkA30raw>>),
    TrackText(0, AttrNum(300), AttrNum(120), <<>>, <<>>) }

\* TrackID = position in the collection
withIds(ts) == [i \in 1..Len(ts) |-> [ts[i] EXCEPT !.TrackID = i]]

\* ids a selection may name; 9 is never the id of a track
SelectableIds == {1, 2, 9}

PlaylistChoices ==
  { <<FALSE, <<>> >>, <<TRUE, <<>> >>, <<TRUE, <<RootNode>> >>,
    <<TRUE, <<RootNode, newPlaylist(<<1>>)>> >> }

BatchConfigs ==
  { DefaultConfig,
    Config("firstHotCue", "lastHotCue", "A", "H", 2, 1, 8, 16, "hot") }

\* whole collections with a selection
InitBatch ==
  /\ \E ts \in SeqsUpTo(TrackCatalog, MaxTracks), pl \in PlaylistChoices :
       xmlContent = Exported([root |-> TRUE, collection |-> TRUE,
                              tracks |-> withIds(ts),
                              playlists |-> pl[1], nodes |-> pl[2]])
  /\ config \in BatchConfigs
  /\ selectedTrackIds \in SeqsUpTo(SelectableIds, MaxSel)

\* hot cue in slot k at 30 + k seconds
HotCue(k) ==
  [Name |-> "", Type |-> "0", Start |-> StartText((30 + k) * TicksPerSec, 3),
   Num |-> k, Color |-> Rgb(k)]

\* the hot cues of the slots 0..7 in slot order, without the slots of skip
HotCuesBut(skip) ==
  SelectSeq([k \in 1..hotCueSlots |-> HotCue(k - 1)],
            LAMBDA m : m.Num \notin skip)

\* mark lists with all eight slots taken, with one slot free, and with a slot
\* held by a loop instead of a hot cue
SlotLists ==
  {HotCuesBut({})} \cup {HotCuesBut({k}) : k \in 0..(hotCueSlots - 1)}
    \cup {Append(HotCuesBut({1}), MarkL46)}

\* one selected track with seven or eight hot cues
InitSlots ==
  /\ \E marks \in SlotLists :
       xmlContent = OneTrackDoc(TrackText(1, AttrNum(300), AttrNum(120),
                                          <<Tempo(AttrNum(120))>>, marks))
  /\ config \in {c \in Configs : /\ c.beforeReference = "firstHotCue"
                                 /\ c.afterReference = "lastHotCue"
                                 /\ c.beforeInterval = 8
                                 /\ c.afterInterval = 16}
  /\ selectedTrackIds = <<1>>

\* documents without DJ_PLAYLISTS or without COLLECTION
InitNoRoot ==
  /\ \E root \in BOOLEAN, pl \in PlaylistChoices :
       xmlContent = Exported([root |-> root, collection |-> FALSE,
                              tracks |-> <<>>,
                              playlists |-> root /\ pl[1],
                              nodes |-> IF root THEN pl[2] ELSE <<>>])
  /\ config \in BatchConfigs
  /\ selectedTrackIds \in SeqsUpTo(SelectableIds, 1)

Init ==
  /\ InitMarks \/ InitAttrs \/ InitBatch \/ InitSlots \/ InitNoRoot
  /\ pc = "ready"
  /\ parsedData = EmptyTree
  /\ modifiedXml = NoText
  /\ newCuesLog = <<>>
  /\ errorMessage = ""
  /\ previousXml = NoText
  /\ AppIdle

----------------------------------------------------------------------------
(* Operations *)

\* XmlProcessor.processXml(xmlContent, config, selectedTrackIds)
ProcessXml ==
  /\ UNCHANGED appVars
  /\ pc = "ready"
  /\ LET r == processXml(xmlContent, config, selectedTrackIds)
     IN /\ pc' = IF r.ok THEN "done" ELSE "failed"
        /\ parsedData' = r.data
        /\ modifiedXml' = r.text
        /\ newCuesLog' = r.log
        /\ errorMessage' = r.error
  /\ UNCHANGED <<xmlContent, config, selectedTrackIds, previousXml>>

Next == ProcessXml

Spec == Init /\ [][Next]_vars

----------------------------------------------------------------------------
(* parseXml and buildXml called on their own: a text is parsed and the tree
   built, then either built once more or the text built is parsed and built
   again. *)

ElementForms == {"paired", "selfClosing"}

\* PLAYLISTS absent or with nodes
BuildPlaylistChoices == {pl \in PlaylistChoices : pl[1] = (pl[2] # <<>>)}

\* collections of up to MaxTracks tracks, written in every way
BuildDocs ==
  { Document(d, Syntax(d, declarations, emptyForm, refForm)) :
      d \in { [root |-> TRUE, collection |-> TRUE, tracks |-> withIds(ts),
               playlists |-> pl[1], nodes |-> pl[2]] :
                 ts \in SeqsUpTo(TrackCatalog, MaxTracks),
                 pl \in BuildPlaylistChoices },
      declarations \in 0..1, emptyForm \in ElementForms,
      refForm \in ElementForms }

InitBuild ==
  /\ xmlContent \in BuildDocs
  /\ config = DefaultConfig
  /\ selectedTrackIds = <<>>
  /\ pc = "text"
  /\ parsedData = EmptyTree
  /\ modifiedXml = NoText
  /\ newCuesLog = <<>>
  /\ errorMessage = ""
  /\ previousXml = NoText
  /\ AppIdle

\* parsedData = parseXml(xmlContent)
ParseXml ==
  /\ UNCHANGED appVars
  /\ pc = "text"
  /\ pc' = "parsed"
  /\ parsedData' = parseXml(xmlContent)
  /\ UNCHANGED <<xmlContent, config, selectedTrackIds, modifiedXml,
                 newCuesLog, errorMessage, previousXml>>

\* modifiedXml = buildXml(parsedData)
BuildXml ==
  /\ UNCHANGED appVars
  /\ pc = "parsed"
  /\ pc' = "built"
  /\ parsedData' = buildXml(parsedData).data
  /\ modifiedXml' = buildXml(parsedData).text
  /\ UNCHANGED <<xmlContent, config, selectedTrackIds, newCuesLog,
                 errorMessage, previousXml>>

\* buildXml called once more on the tree it was called on
BuildSameTree ==
  /\ UNCHANGED appVars
  /\ pc = "built"
  /\ pc' = "builtTwice"
  /\ previousXml' = modifiedXml
  /\ parsedData' = buildXml(parsedData).data
  /\ modifiedXml' = buildXml(parsedData).text
  /\ UNCHANGED <<xmlContent, config, selectedTrackIds, newCuesLog,
                 errorMessage>>

\* parsedData = parseXml(modifiedXml)
ReparseXml ==
  /\ UNCHANGED appVars
  /\ pc = "built"
  /\ pc' = "reparsed"
  /\ parsedData' = parseXml(modifiedXml)
  /\ UNCHANGED <<xmlContent, config, selectedTrackIds, modifiedXml,
                 newCuesLog, errorMessage, previousXml>>

\* modifiedXml = buildXml(parseXml(modifiedXml))
RebuildXml ==
  /\ UNCHANGED appVars
  /\ pc = "reparsed"
  /\ pc' = "rebuilt"
  /\ previousXml' = modifiedXml
  /\ parsedData' = buildXml(parsedData).data
  /\ modifiedXml' = buildXml(parsedData).text
  /\ UNCHANGED <<xmlContent, config, selectedTrackIds, newCuesLog,
                 errorMessage>>

NextBuild ==
  ParseXml \/ BuildXml \/ BuildSameTree \/ ReparseXml \/ RebuildXml

SpecBuild == InitBuild /\ [][NextBuild]_vars

----------------------------------------------------------------------------
(* processXml with the callback of collection.TRACK.forEach taken for the
   tracks in any order, and the two parts of processSingleTrack (the
   initialisation of POSITION_MARK, then the rest) of different tracks
   interleaved. *)

\* if (!track.POSITION_MARK) track.POSITION_MARK = []
ensureMarkArray(track) ==
  [track EXCEPT !.POSITION_MARK = IF @.def THEN @ ELSE Arr(<<>>)]

\* the track handed to the callback together with the marks of every track
trackWithAllMarks(tracks, i) ==
  [tracks[i] EXCEPT !.POSITION_MARK =
     Arr(positionsOf(tracks[1]) \o positionsOf(tracks[Len(tracks)]))]

\* the track handed to the callback of forEach
trackOfCallback(tracks, i) == tracks[i]

PendingTrack == [outcome |-> "pending", newCues |-> <<>>,
                 beforeRefPoint |-> NoRef, afterRefPoint |-> NoRef]

\* selections over the ids 1 and 2, in both orders
OrderSelections == {<<>>, <<1>>, <<2>>, <<1, 2>>, <<2, 1>>}

InitTracks ==
  /\ \E ts \in SeqsUpTo(TrackCatalog, MaxTracks) :
       xmlContent = Exported([root |-> TRUE, collection |-> TRUE,
                              tracks |-> withIds(ts),
                              playlists |-> TRUE, nodes |-> <<RootNode>>])
  /\ config \in BatchConfigs
  /\ selectedTrackIds \in OrderSelections
  /\ pc = "entry"
  /\ parsedData = EmptyTree
  /\ modifiedXml = NoText
  /\ newCuesLog = <<>>
  /\ errorMessage = ""
  /\ previousXml = NoText
  /\ AppIdle

\* parseXml and the structure test; collection.TRACK.forEach throws on a
\* collection without TRACK
EnterProcessXml ==
  /\ UNCHANGED appVars
  /\ pc = "entry"
  /\ LET parsed == parseXml(xmlContent)
     IN /\ parsedData' = parsed
        /\ IF missingCollectionRoot(parsed)
           THEN /\ pc' = "failed"
                /\ errorMessage' = "Invalid Rekordbox XML format"
                /\ newCuesLog' = <<>>
           ELSE IF ~parsed.TRACK.def
           THEN /\ pc' = "failed"
                /\ errorMessage' = "TypeError"
                /\ newCuesLog' = <<>>
           ELSE /\ pc' = "forEach"
                /\ errorMessage' = ""
                /\ newCuesLog' = [i \in 1..Len(parsed.TRACK.arr) |->
                                    PendingTrack]
  /\ UNCHANGED <<xmlContent, config, selectedTrackIds, modifiedXml,
                 previousXml>>

\* the callback reaches track i: nothing for an unselected track, the
\* initialisation of POSITION_MARK for a selected one
StartTrack(i) ==
  /\ UNCHANGED appVars
  /\ pc = "forEach"
  /\ newCuesLog[i].outcome = "pending"
  /\ IF includes(selectedTrackIds, parsedData.TRACK.arr[i].TrackID)
     THEN /\ parsedData' = [parsedData EXCEPT !.TRACK.arr[i] =
                              ensureMarkArray(@)]
          /\ newCuesLog' = [newCuesLog EXCEPT ![i].outcome = "running"]
     ELSE /\ parsedData' = parsedData
          /\ newCuesLog' = [newCuesLog EXCEPT ![i].outcome = "unselected"]
  /\ UNCHANGED <<xmlContent, config, selectedTrackIds, pc, modifiedXml,
                 errorMessage, previousXml>>

\* the rest of processSingleTrack for track i
FinishTrack(i) ==
  /\ UNCHANGED appVars
  /\ pc = "forEach"
  /\ newCuesLog[i].outcome = "running"
  /\ LET r == processSingleTrack(trackOfCallback(parsedData.TRACK.arr, i),
                                 config)
     IN /\ parsedData' = [parsedData EXCEPT !.TRACK.arr[i] = r.track]
        /\ newCuesLog' = [newCuesLog EXCEPT ![i] =
                            [outcome |-> r.outcome, newCues |-> r.newCues,
                             beforeRefPoint |-> r.beforeRefPoint,
                             afterRefPoint |-> r.afterRefPoint]]
  /\ UNCHANGED <<xmlContent, config, selectedTrackIds, pc, modifiedXml,
                 errorMessage, previousXml>>

\* createPlaylistWithProcessedTracks, after forEach returned
AppendPlaylist ==
  /\ UNCHANGED appVars
  /\ pc = "forEach"
  /\ \A i \in 1..Len(newCuesLog) :
        newCuesLog[i].outcome \notin {"pending", "running"}
  /\ pc' = "playlist"
  /\ parsedData' = createPlaylistWithProcessedTracks(parsedData,
                                                     selectedTrackIds)
  /\ UNCHANGED <<xmlContent, config, selectedTrackIds, modifiedXml,
                 newCuesLog, errorMessage, previousXml>>

\* return this.buildXml(parsedData)
ReturnBuilt ==
  /\ UNCHANGED appVars
  /\ pc = "playlist"
  /\ pc' = "done"
  /\ parsedData' = buildXml(parsedData).data
  /\ modifiedXml' = buildXml(parsedData).text
  /\ UNCHANGED <<xmlContent, config, selectedTrackIds, newCuesLog,
                 errorMessage, previousXml>>

NextTracks ==
  \/ EnterProcessXml
  \/ \E i \in 1..Len(newCuesLog) : StartTrack(i)
  \/ \E i \in 1..Len(newCuesLog) : FinishTrack(i)
  \/ AppendPlaylist
  \/ ReturnBuilt

SpecTracks == InitTracks /\ [][NextTracks]_vars

----------------------------------------------------------------------------
(* processXml called on a text and then on the text it returned, with the
   same configuration and selection. *)

\* one selected track, memory cues: every mark list, reference choice and
\* pair of counts
InitRerun ==
  /\ \E marks \in SeqsUpTo(MarkSet, MaxMarks), tm \in TimingChoices :
       xmlContent = OneTrackDoc(TrackText(1, tm[1], tm[2], tm[3], marks))
  /\ config \in {c \in Configs : /\ c.cueType = "memory"
                                 /\ c.beforeInterval = 8
                                 /\ c.afterInterval = 16}
  /\ selectedTrackIds = <<1>>
  /\ pc = "ready"
  /\ parsedData = EmptyTree
  /\ modifiedXml = NoText
  /\ newCuesLog = <<>>
  /\ errorMessage = ""
  /\ previousXml = NoText
  /\ AppIdle

\* modifiedXml = processXml(xmlContent, config, selectedTrackIds)
FirstRun ==
  /\ UNCHANGED appVars
  /\ pc = "ready"
  /\ \E r \in {processXml(xmlContent, config, selectedTrackIds)} :
        /\ pc' = IF r.ok THEN "once" ELSE "failed"
        /\ parsedData' = r.data
        /\ modifiedXml' = r.text
        /\ newCuesLog' = r.log
        /\ errorMessage' = r.error
  /\ UNCHANGED <<xmlContent, config, selectedTrackIds, previousXml>>

\* modifiedXml = processXml(modifiedXml, config, selectedTrackIds)
SecondRun ==
  /\ UNCHANGED appVars
  /\ pc = "once"
  /\ \E r \in {processXml(modifiedXml, config, selectedTrackIds)} :
        /\ pc' = IF r.ok THEN "twice" ELSE "failed"
        /\ parsedData' = r.data
        /\ modifiedXml' = r.text
        /\ newCuesLog' = r.log
        /\ errorMessage' = r.error
  /\ previousXml' = modifiedXml
  /\ UNCHANGED <<xmlContent, config, selectedTrackIds>>

NextRerun == FirstRun \/ SecondRun

SpecRerun == InitRerun /\ [][NextRerun]_vars

----------------------------------------------------------------------------
(* The resolution of the two reference points alone, on mark lists in which
   several marks share a start time or a slot. *)

\* hot cue A at 30.000 s
TieA1 == [Name |-> "one", Type |-> "0", Start |-> StartText(300000, 3),
          Num |-> 0, Color |-> Rgb(0)]
\* a second hot cue A at 30.000 s
TieA2 == [Name |-> "two", Type |-> "0", Start |-> StartText(300000, 3),
          Num |-> 0, Color |-> Rgb(0)]
\* hot cue B at 30 s, written without decimals
TieB == [Name |-> "", Type |-> "0", Start |-> StartText(300000, 0),
         Num |-> 1, Color |-> Rgb(1)]
\* a hot cue A at 62.000 s
TieA62 == [Name |-> "late", Type |-> "0", Start |-> StartText(620000, 3),
           Num |-> 0, Color |-> Rgb(0)]
\* hot cue C at 62.000 s
TieC62 == [Name |-> "", Type |-> "0", Start |-> StartText(620000, 3),
           Num |-> 2, Color |-> Rgb(2)]

TieMarks == {TieA1, TieA2, TieB, TieA62, TieC62, MarkM145, MarkL46}

InitResolve ==
  /\ \E marks \in SeqsUpTo(TieMarks, MaxMarks + 1) :
       xmlContent = OneTrackDoc(TrackText(1, AttrNum(300), AttrNum(120),
                                          <<Tempo(AttrNum(120))>>, marks))
  /\ config \in {c \in Configs : /\ c.beforeCount = 1 /\ c.afterCount = 1
                                 /\ c.beforeInterval = 8
                                 /\ c.afterInterval = 16
                                 /\ c.cueType = "memory"}
  /\ selectedTrackIds = <<1>>
  /\ pc = "ready"
  /\ parsedData = EmptyTree
  /\ modifiedXml = NoText
  /\ newCuesLog = <<>>
  /\ errorMessage = ""
  /\ previousXml = NoText
  /\ AppIdle

\* processSingleTrack on the parsed track up to its two calls of
\* findReferencePoint. hotCues is the new array positions.filter returns, so
\* its sort leaves track.POSITION_MARK as parsed.
ResolveReferences ==
  /\ UNCHANGED appVars
  /\ pc = "ready"
  /\ pc' = "resolved"
  /\ parsedData' = parseXml(xmlContent)
  /\ LET track == ensureMarkArray(parsedData'.TRACK.arr[1])
     IN newCuesLog' =
          <<[outcome |-> "resolved", newCues |-> <<>>,
             beforeRefPoint |-> findReferencePoint(track,
                                   config.beforeReference,
                                   config.specificBeforeCue),
             afterRefPoint |-> findReferencePoint(track,
                                   config.afterReference,
                                   config.specificAfterCue)]>>
  /\ UNCHANGED <<xmlContent, config, selectedTrackIds, modifiedXml,
                 errorMessage, previousXml>>

NextResolve == ResolveReferences

SpecResolve == InitResolve /\ [][NextResolve]_vars

----------------------------------------------------------------------------
(* The wizard: App with its four steps (0 Import XML, 1 Configure Cues,
   2 Select Tracks, 3 Process & Export), the asynchronous progress loop of
   processAndExport, and ProcessingStatus, which is mounted while activeStep
   is 3. xmlContent = NoText and modifiedXml = NoText stand for null,
   errorMessage = "" for a null error. *)

\* most processAndExport runs in flight at once
MaxRuns == 2

\* most save dialogs opened automatically after one run
MaxSaveDialogs == 2

steps == <<"Import XML", "Configure Cues", "Select Tracks", "Process & Export">>

\* steps.length - 1
lastStep == Len(steps) - 1

\* a collection of two tracks, ids 1 and 2
FileA ==
  Exported([root |-> TRUE, collection |-> TRUE,
            tracks |-> withIds(<<TrackText(0, AttrNum(300), AttrNum(120),
                                           <<Tempo(AttrNum(120))>>,
                                           <<MarkA30>>),
                                 TrackText(0, AttrNum(300), AbsentAttr, <<>>,
                                           <<MarkB62, MarkA30>>)>>),
            playlists |-> TRUE, nodes |-> <<RootNode>>])

\* a collection of one track, id 1
FileB ==
  Exported([root |-> TRUE, collection |-> TRUE,
            tracks |-> withIds(<<TrackText(0, AttrNum(60), AttrNum(120), <<>>,
                                           <<MarkA30raw>>)>>),
            playlists |-> FALSE, nodes |-> <<>>])

\* a collection without tracks
FileC ==
  Exported([root |-> TRUE, collection |-> TRUE, tracks |-> <<>>,
            playlists |-> FALSE, nodes |-> <<>>])

AppFiles == {FileA, FileB, FileC}

\* the ids FileLoader hands to App as tracks
trackIdsOf(xml) == {xml.tracks[i].TrackID : i \in 1..Len(xml.tracks)}

\* the Next button without its test of processing
nextDisabledIgnoringProcessing(step, xml, selected, busy) ==
  (step = 0 /\ xml = NoText) \/ (step = 2 /\ Len(selected) = 0)

\* disabled={(activeStep === 0 && !xmlContent) || (activeStep === 2 &&
\* selectedTracks.length === 0) || (activeStep === 3 && processing)}
nextDisabled(step, xml, selected, busy) ==
  \/ step = 0 /\ xml = NoText
  \/ step = 2 /\ Len(selected) = 0
  \/ step = lastStep /\ busy

\* handleToggleTrack: remove the id, or put it at the end
toggleTrack(selected, trackId) ==
  IF includes(selected, trackId)
  THEN SelectSeq(selected, LAMBDA id : id # trackId)
  ELSE Append(selected, trackId)

(* The two effects of ProcessingStatus after a render, in their order: the
   first runs when the component was mounted by this render or success
   changed, the second when it was mounted or processing changed. Result:
   autoExportedRef.current and whether handleExportClick was called. *)
statusEffects(ref, mounted, successEffect, processingEffect, ok, busy, content) ==
  LET opened == mounted /\ successEffect /\ ok /\ content # NoText /\ ~ref
      afterFirst == IF opened THEN TRUE ELSE ref
  IN [ref |-> IF mounted /\ processingEffect /\ busy THEN FALSE
              ELSE afterFirst,
      opened |-> opened]

InitApp ==
  /\ xmlContent = NoText
  /\ config = DefaultConfig
  /\ selectedTrackIds = <<>>
  /\ pc = "app"
  /\ parsedData = EmptyTree
  /\ modifiedXml = NoText
  /\ newCuesLog = <<>>
  /\ errorMessage = ""
  /\ previousXml = NoText
  /\ AppIdle

\* handleFileLoad, called by FileLoader (step 0) with the file read
HandleFileLoad(file) ==
  /\ activeStep = 0
  /\ xmlContent' = file
  /\ errorMessage' = ""
  /\ UNCHANGED <<config, selectedTrackIds, pc, parsedData, modifiedXml,
                 newCuesLog, previousXml, appVars>>

\* handleConfigChange, called by ConfigPanel (step 1)
HandleConfigChange(newConfig) ==
  /\ activeStep = 1
  /\ config' = newConfig
  /\ UNCHANGED <<xmlContent, selectedTrackIds, pc, parsedData, modifiedXml,
                 newCuesLog, errorMessage, previousXml, appVars>>

\* handleTrackSelection, called by TrackSelector (step 2) on a toggle of one
\* of the tracks it lists
HandleTrackSelection(trackId) ==
  /\ activeStep = 2
  /\ trackId \in trackIdsOf(xmlContent)
  /\ selectedTrackIds' = toggleTrack(selectedTrackIds, trackId)
  /\ UNCHANGED <<xmlContent, config, pc, parsedData, modifiedXml, newCuesLog,
                 errorMessage, previousXml, appVars>>

\* handleSelectAllClick with an empty search term: nothing when as many ids
\* are selected as tracks are listed, else every listed track
HandleSelectAllClick ==
  /\ activeStep = 2
  /\ selectedTrackIds' =
       IF Len(selectedTrackIds) = Len(xmlContent.tracks) THEN <<>>
       ELSE [i \in 1..Len(xmlContent.tracks) |-> xmlContent.tracks[i].TrackID]
  /\ UNCHANGED <<xmlContent, config, pc, parsedData, modifiedXml, newCuesLog,
                 errorMessage, previousXml, appVars>>

\* handleBack; leaving step 3 unmounts ProcessingStatus and its ref
HandleBack ==
  /\ activeStep > 0
  /\ activeStep' = activeStep - 1
  /\ autoExportedRef' = FALSE
  /\ UNCHANGED <<xmlContent, config, selectedTrackIds, pc, parsedData,
                 modifiedXml, newCuesLog, errorMessage, previousXml,
                 processing, processedTracks, success, runs, saveDialogs>>

\* handleNext before the last step; reaching step 3 mounts ProcessingStatus
\* with a new ref and runs both effects. The count of save dialogs is capped
\* at MaxSaveDialogs.
HandleNext ==
  /\ activeStep < lastStep
  /\ ~nextDisabled(activeStep, xmlContent, selectedTrackIds, processing)
  /\ saveDialogs < MaxSaveDialogs
  /\ activeStep' = activeStep + 1
  /\ LET e == statusEffects(FALSE, activeStep' = lastStep, TRUE, TRUE,
                            success, processing, modifiedXml)
     IN /\ autoExportedRef' = e.ref
        /\ saveDialogs' = IF e.opened THEN saveDialogs + 1 ELSE saveDialogs
  /\ UNCHANGED <<xmlContent, config, selectedTrackIds, pc, parsedData,
                 modifiedXml, newCuesLog, errorMessage, previousXml,
                 processing, processedTracks, success, runs>>

\* handleNext on the last step: processAndExport up to its first await, or
\* to its end when processXml throws or nothing is selected
ProcessAndExport ==
  /\ activeStep = lastStep
  /\ ~nextDisabled(activeStep, xmlContent, selectedTrackIds, processing)
  /\ Len(runs) < MaxRuns
  /\ \E r \in {processXml(xmlContent, config, selectedTrackIds)} :
     \E waits \in {r.ok /\ Len(selectedTrackIds) > 0} :
        /\ processing' = waits
        /\ processedTracks' = 0
        /\ errorMessage' = IF r.ok THEN ""
                           ELSE "Error processing XML: " \o r.error
        /\ success' = (r.ok /\ ~waits)
        /\ modifiedXml' = IF r.ok THEN r.text ELSE modifiedXml
        /\ runs' = IF waits
                   THEN Append(runs, [total |-> Len(selectedTrackIds), i |-> 0])
                   ELSE runs
        /\ \E e \in {statusEffects(autoExportedRef, TRUE, success' # success,
                                    processing' # processing, success',
                                    processing', modifiedXml')} :
              /\ autoExportedRef' = e.ref
              /\ saveDialogs' = IF e.opened THEN 1 ELSE 0
  /\ UNCHANGED <<xmlContent, config, selectedTrackIds, pc, parsedData,
                 newCuesLog, previousXml, activeStep>>

\* the timeout of run k resolves: setProcessedTracks(i + 1) and, after the
\* last one, setSuccess(true) and setProcessing(false)
TimerTick(k) ==
  /\ k \in 1..Len(runs)
  /\ LET i1 == runs[k].i + 1
         last == i1 = runs[k].total
     IN /\ processedTracks' = i1
        /\ success' = IF last THEN TRUE ELSE success
        /\ processing' = IF last THEN FALSE ELSE processing
        /\ runs' = IF last
                   THEN [j \in 1..(Len(runs) - 1) |->
                           IF j < k THEN runs[j] ELSE runs[j + 1]]
                   ELSE [runs EXCEPT ![k].i = i1]
        /\ LET e == statusEffects(autoExportedRef, activeStep = lastStep,
                                  success' # success, processing' # processing,
                                  success', processing', modifiedXml)
           IN /\ autoExportedRef' = e.ref
              /\ saveDialogs' = IF e.opened THEN saveDialogs + 1
                                ELSE saveDialogs
  /\ UNCHANGED <<xmlContent, config, selectedTrackIds, pc, parsedData,
                 modifiedXml, newCuesLog, errorMessage, previousXml,
                 activeStep>>

NextApp ==
  \/ \E file \in AppFiles : HandleFileLoad(file)
  \/ \E newConfig \in BatchConfigs : HandleConfigChange(newConfig)
  \/ \E trackId \in trackIdsOf(xmlContent) : HandleTrackSelection(trackId)
  \/ HandleSelectAllClick
  \/ HandleBack
  \/ HandleNext
  \/ ProcessAndExport
  \/ \E k \in 1..Len(runs) : TimerTick(k)

SpecApp == InitApp /\ [][NextApp]_vars

----------------------------------------------------------------------------
(* Vocabulary of the properties *)

Done == pc = "done"

TrackIndexes == 1..Len(xmlContent.tracks)

Selected(i) == includes(selectedTrackIds, xmlContent.tracks[i].TrackID)

InMarks(i) == xmlContent.tracks[i].marks
OutMarks(i) == modifiedXml.tracks[i].marks
Generated(i) == newCuesLog[i].newCues
Outcome(i) == newCuesLog[i].outcome

Skipped(i) == Outcome(i) \in {"skipInvalid", "skipNoRef"}

\* no two marks of the list with slot >= 0 carry the same slot number
DistinctSlots(marks) ==
  \A p, q \in 1..Len(marks) :
     (p # q /\ marks[p].Num >= 0 /\ marks[q].Num >= 0)
        => marks[p].Num # marks[q].Num

NonDecreasing(marks) ==
  \A p \in 1..(Len(marks) - 1) : marks[p].Start.t <= marks[p + 1].Start.t

\* the list holds the mark m
HasMark(marks, m) == \E p \in 1..Len(marks) : marks[p] = m

\* the entry createPlaylistWithProcessedTracks adds is the last NODE
LastNode == modifiedXml.nodes[Len(modifiedXml.nodes)]

InputNodes == IF xmlContent.playlists THEN xmlContent.nodes ELSE <<>>

----------------------------------------------------------------------------
(* C1  Slot exclusivity: a track whose input marks carry pairwise distinct
   slot numbers >= 0 has, after processXml, no two marks with slot >= 0 that
   share a slot number, existing and generated marks counted together. *)
C1_SlotExclusivity ==
  Done => \A i \in TrackIndexes :
             DistinctSlots(InMarks(i)) => DistinctSlots(OutMarks(i))

(* C2  No-collision: after processXml every generated mark of a track is at
   least 0.5 s away from every other mark of that track, pre-existing or
   generated in the same run. *)
C2_NoCollision ==
  Done => \A i \in TrackIndexes : \A p, q \in 1..Len(OutMarks(i)) :
             (/\ p # q
              /\ \E c \in 1..Len(Generated(i)) :
                    Generated(i)[c].mark = OutMarks(i)[p])
             => Abs(OutMarks(i)[p].Start.t - OutMarks(i)[q].Start.t)
                   >= minDistance

(* C3  Unselected tracks are untouched: a track whose TrackID is not in
   selectedTrackIds has, in the output of processXml, the attributes and the
   position-mark list (order and every attribute of every mark) of the
   input. *)
C3_UnselectedUntouched ==
  Done => \A i \in TrackIndexes :
             ~Selected(i) => modifiedXml.tracks[i] = xmlContent.tracks[i]

(* C4  Grouping entry: every successful processXml call appends exactly one
   node to the NODE list of PLAYLISTS (creating PLAYLISTS when the input has
   none), the nodes of the input stay in front of it unchanged, and the new
   node's track keys are exactly selectedTrackIds: same ids, multiplicity and
   order, however many selected tracks were skipped. *)
C4_GroupingEntry ==
  Done => /\ modifiedXml.playlists
          /\ Len(modifiedXml.nodes) = Len(InputNodes) + 1
          /\ SubSeq(modifiedXml.nodes, 1, Len(InputNodes)) = InputNodes
          /\ LastNode.TRACK = selectedTrackIds
          /\ LastNode.Name = "Autocue Processed Tracks"

\* three ids selected, one of them a skipped track, one not in the
\* collection, and the input already has playlist nodes
C4_Witness ==
  /\ Done
  /\ Len(selectedTrackIds) = 3
  /\ \E i \in TrackIndexes : Selected(i) /\ Skipped(i)
  /\ \E j \in 1..3 : \A i \in TrackIndexes :
        xmlContent.tracks[i].TrackID # selectedTrackIds[j]
  /\ Len(InputNodes) = 2
  /\ Len(LastNode.TRACK) = 3

(* C5  The only hard failure is an absent collection root: for every document
   that has DJ_PLAYLISTS with a COLLECTION child, processXml completes
   without error, whatever the configuration and selection, and returns
   output that contains the new grouping entry. *)
C5_OnlyRootFails ==
  (pc # "ready" /\ xmlContent.root /\ xmlContent.collection)
     => /\ pc = "done"
        /\ modifiedXml.nodes # <<>>
        /\ LastNode.TRACK = selectedTrackIds

\* a JS number that is NaN or infinite
NotFinite(x) == x.k \in {"nan", "inf"}

\* tempo and duration of an input track as processSingleTrack resolves them
TempoOf(i) == resolveBpm(parseTrack(xmlContent.tracks[i]))
DurationOf(i) == parseFloatOrZero(xmlContent.tracks[i].TotalTime)

(* C6  Skip on invalid tempo or duration: a selected track whose resolved
   tempo is <= 0 or not finite, or whose total duration is <= 0 or not
   finite, is skipped: it receives no generated mark and no error is
   raised. *)
C6_SkipInvalid ==
  (pc # "ready" /\ xmlContent.root /\ xmlContent.collection
                /\ xmlContent.tracks # <<>>)
     => /\ pc = "done"
        /\ \A i \in TrackIndexes :
             (/\ Selected(i)
              /\ \/ LeqZero(TempoOf(i)) \/ NotFinite(TempoOf(i))
                 \/ LeqZero(DurationOf(i)) \/ NotFinite(DurationOf(i)))
             => /\ Generated(i) = <<>>
                /\ Len(OutMarks(i)) = Len(InMarks(i))

(* C7  A skipped track is left unmodified: a selected track that is skipped
   has in the final output the position-mark list of the input (same marks,
   same order, same attribute values), and its id is in the new grouping
   entry. *)
C7_SkippedUnmodified ==
  Done => \A i \in TrackIndexes :
             (Selected(i) /\ Skipped(i))
             => /\ OutMarks(i) = InMarks(i)
                /\ includes(LastNode.TRACK, xmlContent.tracks[i].TrackID)

(* C8  Sort invariant: after processXml the position marks of every processed
   track are in non-decreasing order of start time, for any order of the
   input marks and any set of generated marks. *)
C8_SortInvariant ==
  Done => \A i \in TrackIndexes :
             Outcome(i) = "processed" => NonDecreasing(OutMarks(i))

\* a processed track whose input marks were out of order and that received
\* generated marks on both sides of the reference
C8_Witness ==
  /\ Done
  /\ \E i \in TrackIndexes :
        /\ Outcome(i) = "processed"
        /\ ~NonDecreasing(InMarks(i))
        /\ \E c, d \in 1..Len(Generated(i)) :
              /\ Generated(i)[c].dir = "before"
              /\ Generated(i)[d].dir = "after"
        /\ Len(OutMarks(i)) = Len(InMarks(i)) + Len(Generated(i))

\* start time of the reference cue of an input track, per direction
BeforeRefTime(i) ==
  findReferencePoint(parseTrack(xmlContent.tracks[i]), config.beforeReference,
                     config.specificBeforeCue).mark.Start.t
AfterRefTime(i) ==
  findReferencePoint(parseTrack(xmlContent.tracks[i]), config.afterReference,
                     config.specificAfterCue).mark.Start.t

\* seconds in one bar of an input track, in ticks
BarTicks(i) == (240 * TicksPerSec) \div TempoOf(i).v

(* C9  Boundary: no mark generated in the before direction has a candidate
   time below 0.025 s (a candidate clamped to 0 is dropped, never inserted at
   0), no mark generated in the after direction has a candidate time >= the
   total duration of the track, and every generated mark is in the output at
   its candidate time. *)
C9_Boundary ==
  Done => \A i \in TrackIndexes : \A c \in 1..Len(Generated(i)) :
             LET g == Generated(i)[c]
             IN /\ g.dir = "before" => (g.time >= 250 /\ g.mark.Start.t > 0)
                /\ (g.dir = "after" /\ DurationOf(i).k = "num")
                      => g.time < DurationOf(i).v * TicksPerSec
                /\ g.mark.Start.t = ((g.time + 5) \div 10) * 10
                /\ HasMark(OutMarks(i), g.mark)

\* a processed track with a before candidate clamped to 0 and an after
\* candidate at or beyond the end, next to accepted marks in both directions
C9_Witness ==
  /\ Done
  /\ \E i \in TrackIndexes :
        /\ Outcome(i) = "processed"
        /\ TempoOf(i).k = "num" /\ DurationOf(i).k = "num"
        /\ \E k \in 1..config.beforeCount :
              BeforeRefTime(i) - k * config.beforeInterval * BarTicks(i) <= 0
        /\ \E k \in 1..config.afterCount :
              AfterRefTime(i) + k * config.afterInterval * BarTicks(i)
                 >= DurationOf(i).v * TicksPerSec
        /\ \E c, d \in 1..Len(Generated(i)) :
              /\ Generated(i)[c].dir = "before"
              /\ Generated(i)[d].dir = "after"

\* Scenario A: the only mark of track i is hot cue A at 30.000 s, BPM 120,
\* duration 300 s, before = 2 cues every 8 bars, after = 1 cue every 16 bars
ScenarioA(i) ==
  /\ Len(InMarks(i)) = 1
  /\ InMarks(i)[1].Type = "0" /\ InMarks(i)[1].Num = 0
  /\ InMarks(i)[1].Start = [t |-> 30 * TicksPerSec, dec |-> 3]
  /\ TempoOf(i) = Num(120)
  /\ DurationOf(i) = Num(300)
  /\ config.beforeCount = 2 /\ config.beforeInterval = 8
  /\ config.afterCount = 1 /\ config.afterInterval = 16
  /\ Selected(i)
  /\ Outcome(i) = "processed"

\* the generated marks of track i hold a mark with this name, start and slot
GeneratedHas(i, name, t, slot) ==
  \E c \in 1..Len(Generated(i)) :
     /\ Generated(i)[c].mark.Name = name
     /\ Generated(i)[c].mark.Start = [t |-> t, dec |-> 3]
     /\ Generated(i)[c].mark.Num = slot

(* C10  Scenario A as stated: process adds exactly two marks, a memory mark
   (slot -1) at 14.000 s named "Auto 2" and a hot mark at 62.000 s in slot 1
   named "Auto 1". *)
C10_ScenarioA_AsStated ==
  Done => \A i \in TrackIndexes :
             ScenarioA(i)
             => /\ Len(Generated(i)) = 2
                /\ GeneratedHas(i, "Auto 2", 14 * TicksPerSec, -1)
                /\ GeneratedHas(i, "Auto 1", 62 * TicksPerSec, 1)

(* C10 amended  Scenario A with the one configured kind memory: process adds
   exactly two marks, both memory marks (slot -1, no colour): "Auto 2" at
   14.000 s and "Auto 1" at 62.000 s; the second before candidate (clamped
   to 0) is not inserted, and the output holds the three marks in order
   14.000, 30.000, 62.000. *)
C10_ScenarioA_Memory ==
  Done => \A i \in TrackIndexes :
             (ScenarioA(i) /\ config.cueType = "memory")
             => /\ Len(Generated(i)) = 2
                /\ GeneratedHas(i, "Auto 2", 14 * TicksPerSec, -1)
                /\ GeneratedHas(i, "Auto 1", 62 * TicksPerSec, -1)
                /\ \A c \in 1..2 : Generated(i)[c].mark.Color = <<>>
                /\ [p \in 1..Len(OutMarks(i)) |-> OutMarks(i)[p].Start.t]
                     = <<14 * TicksPerSec, 30 * TicksPerSec, 62 * TicksPerSec>>

C10_Witness ==
  /\ Done
  /\ \E i \in TrackIndexes :
        /\ ScenarioA(i)
        /\ config.cueType = "memory"
        /\ Len(OutMarks(i)) = 3

----------------------------------------------------------------------------
(* C11  A document that lacks DJ_PLAYLISTS, or whose DJ_PLAYLISTS lacks the
   COLLECTION child, makes processXml fail for the whole operation with the
   format error: no output text is returned, no track is modified and no
   grouping entry is created. *)
C11_MissingRootFails ==
  (pc # "ready" /\ ~(xmlContent.root /\ xmlContent.collection))
     => /\ pc = "failed"
        /\ errorMessage = "Invalid Rekordbox XML format"
        /\ modifiedXml.tracks = <<>> /\ modifiedXml.nodes = <<>>
        /\ ~modifiedXml.root
        /\ ~parsedData.TRACK.def
        /\ parsedData.NODE.arr = InputNodes

\* DJ_PLAYLISTS is there with playlist nodes, COLLECTION is not, and tracks
\* were selected
C11_Witness ==
  /\ pc = "failed"
  /\ xmlContent.root /\ ~xmlContent.collection
  /\ Len(InputNodes) = 2
  /\ selectedTrackIds # <<>>

----------------------------------------------------------------------------
\* the name a mark is read with: a missing Name attribute reads as empty
NameOf(m) == IF m.Name = NoName THEN "" ELSE m.Name

\* how many marks of the list have this name, start time and slot
CountLike(marks, m) ==
  Cardinality({p \in 1..Len(marks) : /\ NameOf(marks[p]) = NameOf(m)
                                     /\ marks[p].Start.t = m.Start.t
                                     /\ marks[p].Num = m.Num})

GeneratedMarks(i) == [c \in 1..Len(Generated(i)) |-> Generated(i)[c].mark]

(* C12  Existing cue points are preserved: for every track of the collection,
   selected or not, every position mark of the input is in the output exactly
   as often as in the input (plus the generated marks that look the same),
   with the same name, start time and slot number. *)
C12_MarksPreserved_AsStated ==
  Done => \A i \in TrackIndexes : \A p \in 1..Len(InMarks(i)) :
             CountLike(OutMarks(i), InMarks(i)[p])
                = CountLike(InMarks(i), InMarks(i)[p])
                    + CountLike(GeneratedMarks(i), InMarks(i)[p])

\* the start time as written with three decimals
RoundMs(t) == ((t + 5) \div 10) * 10

\* how many marks of the list have this name and slot and, to the
\* millisecond, this start time
CountLikeMs(marks, m) ==
  Cardinality({p \in 1..Len(marks) :
                 /\ NameOf(marks[p]) = NameOf(m)
                 /\ RoundMs(marks[p].Start.t) = RoundMs(m.Start.t)
                 /\ marks[p].Num = m.Num})

\* C12 amended: the start time of an existing mark is kept to the
\* millisecond (it is rewritten with three decimals); name and slot number
\* are kept, and no existing mark is removed or duplicated.
C12_MarksPreserved_Ms ==
  Done => \A i \in TrackIndexes : \A p \in 1..Len(InMarks(i)) :
             CountLikeMs(OutMarks(i), InMarks(i)[p])
                = CountLikeMs(InMarks(i), InMarks(i)[p])
                    + CountLikeMs(GeneratedMarks(i), InMarks(i)[p])

\* a processed track with two existing marks, one of them written with four
\* decimals, that received generated marks
C12_Witness ==
  /\ Done
  /\ \E i \in TrackIndexes :
        /\ Outcome(i) = "processed"
        /\ Len(InMarks(i)) = 2
        /\ \E p \in 1..2 : InMarks(i)[p].Start.dec = 4
        /\ Len(Generated(i)) >= 2

----------------------------------------------------------------------------
(* C13  buildXml is side-effect-free: the tree handed to buildXml is, after
   the call, the tree parseXml returned (every track's position-mark list with
   the same elements, order and attribute values). *)
C13_BuildLeavesTree ==
  pc = "built" => parsedData = parseXml(xmlContent)

\* the forms the text gives to the elements with a tag of nonSelfClosingTags
NeverCollapsedForms(text) ==
  {text.syntax.DJ_PLAYLISTS, text.syntax.COLLECTION, text.syntax.PLAYLISTS}
    \cup {text.syntax.TRACK[i] : i \in 1..Len(text.syntax.TRACK)}
    \cup {text.syntax.NODE[n].NODE : n \in 1..Len(text.syntax.NODE)}
    \cup {text.syntax.NODE[n].TRACK : n \in 1..Len(text.syntax.NODE)}

(* C14  Never-collapsed rule: in the text buildXml returns, no TRACK,
   DJ_PLAYLISTS, COLLECTION, PLAYLISTS or NODE element is self-closing, also
   when it has no children, like the playlist node created for an empty
   selection. *)
C14_NeverCollapsed ==
  Done => "selfClosing" \notin NeverCollapsedForms(modifiedXml)

(* C15  Round-trip stability: buildXml(parseXml(text)) is the text: every
   element keeps its form and every position mark its attributes and its
   place. *)
C15_RoundTrip ==
  pc = "built" => modifiedXml = xmlContent

(* C16  Idempotence of the finishing pass: with out1 =
   buildXml(parseXml(text)), buildXml(parseXml(out1)) is out1. *)
C16_Idempotent ==
  pc = "rebuilt" => modifiedXml = previousXml

\* a text without declaration, with self-closing playlist entries and a track
\* whose marks are neither sorted nor normalised, built, parsed and built
C16_Witness ==
  /\ pc = "rebuilt"
  /\ xmlContent.syntax.declaration = 0
  /\ \E n \in 1..Len(xmlContent.nodes) :
        xmlContent.syntax.NODE[n].TRACK = "selfClosing"
  /\ \E i \in TrackIndexes :
        /\ ~NonDecreasing(InMarks(i))
        /\ previousXml.tracks[i].marks # InMarks(i)

----------------------------------------------------------------------------
\* the reference points processSingleTrack resolved for track i
BeforeRefPoint(i) == newCuesLog[i].beforeRefPoint
AfterRefPoint(i) == newCuesLog[i].afterRefPoint

\* the call came to resolve its reference points
Resolved(i) == Outcome(i) \in {"processed", "skipNoRef"}

\* positions of the input marks with a slot number >= 0
SlotMarks(i) == {p \in 1..Len(InMarks(i)) : InMarks(i)[p].Num >= 0}

\* positions of the input marks with Type "0" and a slot number >= 0
HotCueMarks(i) == {p \in SlotMarks(i) : InMarks(i)[p].Type = "0"}

SlotOfLetter == [A |-> 0, B |-> 1, C |-> 2, D |-> 3,
                 E |-> 4, F |-> 5, G |-> 6, H |-> 7]

\* ref is a mark of the list at a position of P, as early (sign = 1) or as
\* late (sign = -1) as every mark at a position of P; no reference when P is
\* empty
IsExtreme(ref, marks, P, sign) ==
  IF P = {} THEN ~ref.found
  ELSE /\ ref.found
       /\ \E p \in P : /\ ref.mark = marks[p]
                       /\ \A q \in P : sign * marks[p].Start.t
                                           <= sign * marks[q].Start.t

\* ref is what the strategy asks for among the marks at the positions P
IsReference(ref, marks, P, refType, letter) ==
  CASE refType \in {"firstHotCue", "intro"} -> IsExtreme(ref, marks, P, 1)
    [] refType \in {"lastHotCue", "outro"} -> IsExtreme(ref, marks, P, -1)
    [] refType = "specificHotCue" ->
         LET M == {p \in P : marks[p].Num = SlotOfLetter[letter]}
         IN IF M = {} THEN ~ref.found
            ELSE ref.found /\ \E p \in M : ref.mark = marks[p]
    [] OTHER -> TRUE

(* C17  Reference resolution over the marks with slot >= 0: the earliest for
   firstHotCue and intro, the latest for lastHotCue and outro, for
   specificHotCue the mark in slot letter - 'A' or none; none when the track
   has no mark with slot >= 0. *)
C17_Reference_AsStated ==
  Done => \A i \in TrackIndexes :
     Resolved(i) =>
        /\ IsReference(BeforeRefPoint(i), InMarks(i), SlotMarks(i),
                       config.beforeReference, config.specificBeforeCue)
        /\ IsReference(AfterRefPoint(i), InMarks(i), SlotMarks(i),
                       config.afterReference, config.specificAfterCue)

\* C17 amended: the same resolution over the marks that have Type "0" and a
\* slot >= 0; a mark of another Type is never a reference, whatever its slot.
C17_Reference_TypeZero ==
  Done => \A i \in TrackIndexes :
     Resolved(i) =>
        /\ IsReference(BeforeRefPoint(i), InMarks(i), HotCueMarks(i),
                       config.beforeReference, config.specificBeforeCue)
        /\ IsReference(AfterRefPoint(i), InMarks(i), HotCueMarks(i),
                       config.afterReference, config.specificAfterCue)

\* a processed track whose latest mark with a slot >= 0 has Type "4": the
\* after reference of lastHotCue is the hot cue before it
C17_Witness ==
  /\ Done
  /\ \E i \in TrackIndexes :
        /\ Outcome(i) = "processed"
        /\ config.afterReference = "lastHotCue"
        /\ AfterRefPoint(i).mark = MarkA30
        /\ \E p \in SlotMarks(i) :
              /\ InMarks(i)[p].Type = "4"
              /\ InMarks(i)[p].Start.t > MarkA30.Start.t

----------------------------------------------------------------------------
\* the strategy finds a mark among the hot cues of input track i
CanResolve(i, refType, letter) ==
  CASE refType \in {"firstHotCue", "intro", "lastHotCue", "outro"} ->
         HotCueMarks(i) # {}
    [] refType = "specificHotCue" ->
         \E p \in HotCueMarks(i) : InMarks(i)[p].Num = SlotOfLetter[letter]
    [] OTHER -> FALSE

BeforeResolves(i) ==
  CanResolve(i, config.beforeReference, config.specificBeforeCue)

AfterResolves(i) ==
  CanResolve(i, config.afterReference, config.specificAfterCue)

(* C18  A track is processed only when both references resolve: a selected
   track whose before reference or after reference cannot be resolved gets
   no generated mark in either direction, also when the direction that
   failed has a count of 0. *)
C18_BothReferences ==
  Done => \A i \in TrackIndexes :
     (Selected(i) /\ ~(BeforeResolves(i) /\ AfterResolves(i)))
        => /\ Generated(i) = <<>>
           /\ Len(OutMarks(i)) = Len(InMarks(i))

\* a track with usable tempo and duration whose before reference resolves,
\* whose after letter is not on the track, with before cues asked for and no
\* after cue
C18_Witness ==
  /\ Done
  /\ config.beforeCount > 0 /\ config.afterCount = 0
  /\ config.afterReference = "specificHotCue"
  /\ \E i \in TrackIndexes :
        /\ Selected(i)
        /\ Outcome(i) = "skipNoRef"
        /\ BeforeResolves(i) /\ ~AfterResolves(i)
        /\ BeforeRefPoint(i).found

----------------------------------------------------------------------------
\* the slots of 0..7 that no input mark at a position of P holds
FreeSlots(i, P) ==
  {n \in 0..(hotCueSlots - 1) : \A p \in P : InMarks(i)[p].Num # n}

\* every generated mark of track i has the slot the rule gives when the
\* occupied slots are those of the marks at the positions P
SlotsAssigned(i, P) ==
  \A c \in 1..Len(Generated(i)) :
     LET num == Generated(i)[c].mark.Num
     IN IF config.cueType = "memory" \/ FreeSlots(i, P) = {} THEN num = -1
        ELSE num \in FreeSlots(i, P) /\ \A n \in FreeSlots(i, P) : num <= n

\* a track with all eight slots taken by the marks at P is processed
FullTrackProcessed(i, P) ==
  (Selected(i) /\ FreeSlots(i, P) = {} /\ BeforeResolves(i) /\ AfterResolves(i)
     /\ ~invalidBpmOrDuration(TempoOf(i), DurationOf(i)))
    => Outcome(i) = "processed"

(* C19  Slot assignment, the occupied slots being those of the marks with a
   slot >= 0: a generated hot mark has the lowest free slot of 0..7, slot -1
   when all eight are occupied (the track is processed all the same), and a
   generated memory mark has slot -1. *)
C19_Slots_AsStated ==
  Done => \A i \in TrackIndexes :
             SlotsAssigned(i, SlotMarks(i)) /\ FullTrackProcessed(i, SlotMarks(i))

\* C19 amended: the occupied slots are those of the existing marks with
\* Type "0" and a slot >= 0; a slot held by a mark of another Type counts as
\* free.
C19_Slots_TypeZero ==
  Done => \A i \in TrackIndexes :
             /\ SlotsAssigned(i, HotCueMarks(i))
             /\ FullTrackProcessed(i, HotCueMarks(i))

\* all eight slots hold hot cues, hot cues were asked for, and three marks
\* were generated, each in slot -1
C19_Witness ==
  /\ Done
  /\ config.cueType = "hot"
  /\ \E i \in TrackIndexes :
        /\ FreeSlots(i, HotCueMarks(i)) = {}
        /\ Outcome(i) = "processed"
        /\ Len(Generated(i)) = 3
        /\ \A c \in 1..3 : Generated(i)[c].mark.Num = -1

----------------------------------------------------------------------------
\* the marks generated before the reference of track i
BeforeMarks(i) ==
  marksOfCues(SelectSeq(Generated(i), LAMBDA cue : cue.dir = "before"))

\* candidate k of the before direction: max(0, refTime - k * interval * bar)
BeforeCandidate(i, k) ==
  Max(0, BeforeRefTime(i) - k * config.beforeInterval * BarTicks(i))

\* the candidate is neither below 0.025 s nor within 0.5 s of an input mark
Accepted(i, time) ==
  /\ time >= startFloor
  /\ \A p \in 1..Len(InMarks(i)) :
        Abs(InMarks(i)[p].Start.t - time) >= minDistance

AcceptedBefore(i) ==
  {k \in 1..config.beforeCount : Accepted(i, BeforeCandidate(i, k))}

(* C20  Before-direction generation: on a processed track with a finite
   tempo, candidate k of 1..beforeCount is at max(0, refTime - k *
   beforeInterval * barSeconds); the before marks are exactly one mark per
   accepted candidate, at the candidate's time and named "Auto {beforeCount -
   k + 1}", so a rejected candidate leaves a gap in the numbers; with
   beforeCount = 0 there is no before mark. *)
C20_BeforeGeneration ==
  Done => \A i \in TrackIndexes :
     (Outcome(i) = "processed" /\ TempoOf(i).k = "num")
        => /\ Len(BeforeMarks(i)) = Cardinality(AcceptedBefore(i))
           /\ \A k \in AcceptedBefore(i) :
                 \E c \in 1..Len(BeforeMarks(i)) :
                    /\ BeforeMarks(i)[c].Name
                          = "Auto " \o ToString(config.beforeCount - k + 1)
                    /\ BeforeMarks(i)[c].Start.t
                          = RoundMs(BeforeCandidate(i, k))
                    /\ HasMark(OutMarks(i), BeforeMarks(i)[c])
           /\ config.beforeCount = 0 => BeforeMarks(i) = <<>>

\* two before cues asked for, the second candidate rejected: the only before
\* mark is "Auto 2", 16 s before the reference
C20_Witness ==
  /\ Done
  /\ config.beforeCount = 2
  /\ \E i \in TrackIndexes :
        /\ Outcome(i) = "processed"
        /\ AcceptedBefore(i) = {1}
        /\ Len(BeforeMarks(i)) = 1
        /\ BeforeMarks(i)[1].Name = "Auto 2"
        /\ BeforeMarks(i)[1].Start.t = BeforeRefTime(i) - 16 * TicksPerSec

----------------------------------------------------------------------------
\* the marks generated after the reference of track i
AfterMarks(i) ==
  marksOfCues(SelectSeq(Generated(i), LAMBDA cue : cue.dir = "after"))

\* candidate k of the after direction: refTime + k * interval * bar
AfterCandidate(i, k) ==
  AfterRefTime(i) + k * config.afterInterval * BarTicks(i)

\* the time lies before the end of the track
BeforeEnd(i, time) ==
  DurationOf(i).k = "inf" \/ time < DurationOf(i).v * TicksPerSec

\* no mark of the list is within 0.5 s of the time
FarFrom(marks, time) ==
  \A p \in 1..Len(marks) : Abs(marks[p].Start.t - time) >= minDistance

\* the after mark of candidate k: named "Auto k", at the candidate's time
IsAfterMark(i, k, m) ==
  m.Name = "Auto " \o ToString(k) /\ m.Start.t = RoundMs(AfterCandidate(i, k))

\* the after marks of the candidates before k
EarlierAfterMarks(i, k) ==
  SelectSeq(AfterMarks(i),
            LAMBDA m : \E j \in 1..(k - 1) : IsAfterMark(i, j, m))

(* C21  After-direction generation: on a processed track with a finite
   tempo, candidate k of 1..afterCount is at refTime + k * afterInterval *
   barSeconds; it yields one mark at that time named "Auto k" iff the time is
   below the total duration and not within 0.5 s of an existing mark or of a
   mark accepted before it in the same run; there is no other after mark. *)
C21_AfterGeneration ==
  Done => \A i \in TrackIndexes :
     (Outcome(i) = "processed" /\ TempoOf(i).k = "num")
        => /\ \A k \in 1..config.afterCount :
                 (\E c \in 1..Len(AfterMarks(i)) :
                     IsAfterMark(i, k, AfterMarks(i)[c]))
                 <=> /\ BeforeEnd(i, AfterCandidate(i, k))
                     /\ FarFrom(InMarks(i), AfterCandidate(i, k))
                     /\ FarFrom(BeforeMarks(i), AfterCandidate(i, k))
                     /\ FarFrom(EarlierAfterMarks(i, k), AfterCandidate(i, k))
           /\ \A c \in 1..Len(AfterMarks(i)) :
                 \E k \in 1..config.afterCount :
                    IsAfterMark(i, k, AfterMarks(i)[c])

----------------------------------------------------------------------------
\* an attribute text that reads as a positive finite number
PositiveNumber(a) == a.k = "num" /\ a.v > 0

\* the track has no TEMPO, or the Bpm of its first TEMPO is absent, <= 0 or
\* not a number
FirstTempoUnusable(i) ==
  \/ xmlContent.tracks[i].tempos = <<>>
  \/ LET b == xmlContent.tracks[i].tempos[1].Bpm
     IN b.k \in {"absent", "nan"} \/ (b.k = "num" /\ b.v <= 0)

(* C22  Tempo resolution with fallback: a selected track without a usable
   first tempo marker (none, or its Bpm absent, <= 0 or not a number) that
   has a positive AverageBpm and a positive TotalTime is resolved with
   AverageBpm and is not skipped for its tempo. *)
C22_TempoFallback ==
  Done => \A i \in TrackIndexes :
     (/\ Selected(i)
      /\ FirstTempoUnusable(i)
      /\ PositiveNumber(xmlContent.tracks[i].AverageBpm)
      /\ PositiveNumber(xmlContent.tracks[i].TotalTime))
     => /\ Outcome(i) # "skipInvalid"
        /\ TempoOf(i) = Num(xmlContent.tracks[i].AverageBpm.v)

----------------------------------------------------------------------------
\* what processXml returns when forEach takes the tracks in document order
InOrder == processXml(xmlContent, config, selectedTrackIds)

(* C23  Track independence: whatever the order of the tracks and the
   interleaving of their steps, the text returned, the tree and the cues
   generated per track are those of the run in document order; while tracks
   are being processed a track that was not reached yet is as parsed, and no
   playlist node has been added. *)
C23_TrackIndependence ==
  /\ pc = "done" => /\ modifiedXml = InOrder.text
                    /\ parsedData = InOrder.data
                    /\ newCuesLog = InOrder.log
  /\ pc = "forEach" =>
        /\ parsedData.NODE = parseXml(xmlContent).NODE
        /\ parsedData.PLAYLISTS = parseXml(xmlContent).PLAYLISTS
        /\ \A j \in 1..Len(newCuesLog) :
              newCuesLog[j].outcome = "pending"
                 => parsedData.TRACK.arr[j] = parseXml(xmlContent).TRACK.arr[j]

\* track 2 has received its cues while track 1, selected too, has only had
\* its first step
C23_Witness ==
  /\ pc = "forEach"
  /\ Len(newCuesLog) = 2
  /\ newCuesLog[1].outcome = "running"
  /\ newCuesLog[2].outcome = "processed"
  /\ Len(newCuesLog[2].newCues) >= 2

----------------------------------------------------------------------------
(* C24  Re-processing with memory cues: the second run of processXml, on the
   output of the first with the same configuration and selection, adds no
   position mark to any track; it adds one more playlist node. *)
C24_RerunAddsNoMark ==
  pc = "twice" =>
     /\ \A i \in 1..Len(modifiedXml.tracks) :
           /\ newCuesLog[i].newCues = <<>>
           /\ Len(modifiedXml.tracks[i].marks)
                 = Len(previousXml.tracks[i].marks)
     /\ Len(modifiedXml.nodes) = Len(previousXml.nodes) + 1

----------------------------------------------------------------------------
(* C25  Exported content is current: whenever success is true,
   modifiedXmlContent is what processXml returns for the loaded xmlContent,
   the current config and the current selectedTracks. *)
C25_ExportCurrent ==
  success => /\ processXml(xmlContent, config, selectedTrackIds).ok
             /\ modifiedXml
                  = processXml(xmlContent, config, selectedTrackIds).text

(* C26  Selection matches the loaded file: every id in selectedTracks is the
   TrackID of a track of the loaded collection. *)
C26_SelectionOfLoadedFile ==
  \A p \in 1..Len(selectedTrackIds) :
     selectedTrackIds[p] \in trackIdsOf(xmlContent)

(* C27  Auto-export at most once per run: after a processAndExport run the
   save dialog is opened automatically at most once until the next run
   starts, however often ProcessingStatus is unmounted and mounted again. *)
C27_AutoExportOnce ==
  saveDialogs <= 1

(* C28  Progress never exceeds the total: while ProcessingStatus is shown
   (step 3), processed <= total, where total is selectedTracks.length. *)
C28_ProgressWithinTotal ==
  activeStep = lastStep => processedTracks <= Len(selectedTrackIds)

(* C29  At most one processing run is in flight: never two runs of
   processAndExport at once, processing is true while one is running, and
   success and error are never both set. *)
C29_OneRun ==
  /\ Len(runs) <= 1
  /\ runs # <<>> => processing
  /\ ~(success /\ errorMessage # "")

\* a run of two tracks is half way, the user has gone back to the selection
\* and returned to the last step, where Next is disabled
C29_Witness ==
  /\ activeStep = lastStep
  /\ processing
  /\ Len(runs) = 1 /\ runs[1].total = 2 /\ runs[1].i = 1
  /\ Len(selectedTrackIds) = 1
  /\ nextDisabled(activeStep, xmlContent, selectedTrackIds, processing)

----------------------------------------------------------------------------
\* the hot cues of the list that no hot cue precedes (sign = 1) or follows
\* (sign = -1) in time
ExtremeHotCues(marks, P, sign) ==
  {p \in P : \A q \in P : sign * marks[p].Start.t <= sign * marks[q].Start.t}

Least(S) == CHOOSE p \in S : \A q \in S : p <= q
Greatest(S) == CHOOSE p \in S : \A q \in S : p >= q

\* ref is the mark the strategy has to return among the hot cues at P
TieBroken(ref, marks, P, refType, letter) ==
  CASE refType \in {"firstHotCue", "intro"} ->
         P # {} => ref.found
                   /\ ref.mark = marks[Least(ExtremeHotCues(marks, P, 1))]
    [] refType \in {"lastHotCue", "outro"} ->
         P # {} => ref.found
                   /\ ref.mark = marks[Greatest(ExtremeHotCues(marks, P, -1))]
    [] refType = "specificHotCue" ->
         LET M == {p \in P : marks[p].Num = SlotOfLetter[letter]}
         IN M # {} => ref.found
                      /\ \E p \in ExtremeHotCues(marks, M, 1) :
                            ref.mark = marks[p]
    [] OTHER -> TRUE

(* C30  Reference tie-breaks: among hot cues of the same start time,
   firstHotCue and intro give the first in document order of the earliest,
   lastHotCue and outro the last in document order of the latest; of several
   hot cues in the requested slot, specificHotCue gives one with the smallest
   start time; the mark list of the track is in document order after the
   resolution. *)
C30_TieBreaks ==
  pc = "resolved" =>
     /\ TieBroken(BeforeRefPoint(1), InMarks(1), HotCueMarks(1),
                  config.beforeReference, config.specificBeforeCue)
     /\ TieBroken(AfterRefPoint(1), InMarks(1), HotCueMarks(1),
                  config.afterReference, config.specificAfterCue)
     /\ parsedData.TRACK.arr[1].POSITION_MARK = arrayOf(InMarks(1))

\* three different hot cues at 30 s: the first of them is the reference of
\* firstHotCue, the last of them the reference of lastHotCue
C30_Witness ==
  /\ pc = "resolved"
  /\ config.beforeReference = "firstHotCue"
  /\ config.afterReference = "lastHotCue"
  /\ InMarks(1) = <<TieA1, TieB, TieA2>>
  /\ BeforeRefPoint(1).mark = TieA1
  /\ AfterRefPoint(1).mark = TieA2

====
